---- MODULE Spec2Model ----
(***************************************************************************)
(* A model of the modal terminal editor of src/helper.go: the bubbletea    *)
(* model struct, its key handlers (Update and the handle*Mode methods),    *)
(* the undo/redo stacks, the viewport offset and the search functions.     *)
(*                                                                         *)
(* A line is a Go []rune, modelled as a sequence of runes; a Go string     *)
(* (searchTerm, replaceTerm, clipboard, the argument of the strings.*      *)
(* functions) is a sequence of UTF-8 bytes.  A rune is a one-character     *)
(* string; a byte is the pair <<rune, k>>, the k-th byte of that rune's     *)
(* encoding.  "a" and " " are one byte wide, "w" stands for a two-byte     *)
(* rune (such as U+00E9) and "?" for U+FFFD, which is three bytes wide.    *)
(***************************************************************************)
EXTENDS Integers, Sequences, FiniteSets, TLC

\* ------------------------------------------------------------------ bounds

\* Number of events (key presses, window resizes) explored in one session.
MaxKeys == 5
\* The files the editor is started on hold at most this many lines.
MaxInitLines == 2
\* Longest line of the buffers the search and replace functions are tried on.
MaxFnLen == 3
\* Longest search or replace term the search and replace functions are tried on.
MaxTermLen == 2
\* Largest terminal height a WindowSizeMsg reports.
MaxWinHeight == 4
\* Most stale runes a line's backing array holds past its length.
MaxSpare == 1

\* tabSize as initialModel sets it.
tabSize == 4

\* The runes a key press can carry.
TypedRunes == {"a", "w"}

\* ----------------------------------------------------------- Go primitives

Min(a, b) == IF a < b THEN a ELSE b

Max(a, b) == IF a > b THEN a ELSE b

\* s[lo:hi] of a Go slice or string, 0-based, for 0 <= lo <= hi <= len(s).
Slice(s, lo, hi) == SubSeq(s, lo + 1, hi)

\* utf8.RuneLen
Width(r) == CASE r = "w" -> 2 [] r = "?" -> 3 [] OTHER -> 1

\* string(rune)
EncodeRune(r) == [k \in 1..Width(r) |-> <<r, k>>]

\* string([]rune): the UTF-8 encoding of a line.
RECURSIVE Encode(_)
Encode(rs) == IF rs = <<>> THEN <<>> ELSE EncodeRune(Head(rs)) \o Encode(Tail(rs))

\* Whether a complete encoding of one rune starts at the head of bs.
StartsRune(bs) ==
    /\ bs # <<>>
    /\ Head(bs)[2] = 1
    /\ Len(bs) >= Width(Head(bs)[1])
    /\ \A k \in 1..Width(Head(bs)[1]) : bs[k] = <<Head(bs)[1], k>>

\* []rune(string): each invalid byte decodes to U+FFFD, one byte consumed.
RECURSIVE Decode(_)
Decode(bs) ==
    IF bs = <<>> THEN <<>>
    ELSE IF StartsRune(bs)
         THEN <<Head(bs)[1]>> \o Decode(Slice(bs, Width(Head(bs)[1]), Len(bs)))
         ELSE <<"?">> \o Decode(Tail(bs))

\* utf8.DecodeRuneInString's width: the bytes the first rune of bs takes.
FirstWidth(bs) ==
    IF bs = <<>> THEN 0 ELSE IF StartsRune(bs) THEN Width(Head(bs)[1]) ELSE 1

\* Whether sub occurs in s at byte offset i (0-based).
OccursAt(s, sub, i) ==
    /\ i >= 0
    /\ i + Len(sub) <= Len(s)
    /\ Slice(s, i, i + Len(sub)) = sub

\* strings.Index: the byte offset of the first occurrence, or -1.
Index(s, sub) ==
    LET hits == {i \in 0..Len(s) : OccursAt(s, sub, i)}
    IN  IF hits = {} THEN -1 ELSE CHOOSE i \in hits : \A j \in hits : i <= j

\* strings.LastIndex: the byte offset of the last occurrence, or -1.
LastIndex(s, sub) ==
    LET hits == {i \in 0..Len(s) : OccursAt(s, sub, i)}
    IN  IF hits = {} THEN -1 ELSE CHOOSE i \in hits : \A j \in hits : i >= j

\* strings.Count: non-overlapping occurrences; runes + 1 for an empty sub.
RECURSIVE Count(_, _)
Count(s, sub) ==
    IF sub = <<>> THEN Len(Decode(s)) + 1
    ELSE LET i == Index(s, sub)
         IN  IF i = -1 THEN 0 ELSE 1 + Count(Slice(s, i + Len(sub), Len(s)), sub)

\* The loop of strings.Replace: n replacements left, i-th iteration flag first.
RECURSIVE ReplaceLoop(_, _, _, _, _)
ReplaceLoop(s, old, new, n, first) ==
    IF n = 0 THEN s
    ELSE LET j == IF old = <<>>
                  THEN (IF first THEN 0 ELSE FirstWidth(s))
                  ELSE Index(s, old)
         IN  Slice(s, 0, j) \o new
                 \o ReplaceLoop(Slice(s, j + Len(old), Len(s)), old, new, n - 1, FALSE)

\* strings.ReplaceAll
ReplaceAll(s, old, new) ==
    IF old = new THEN s
    ELSE IF Count(s, old) = 0 THEN s
    ELSE ReplaceLoop(s, old, new, Count(s, old), TRUE)

\* ------------------------------------------------------------- the state

\* The fields of the model struct (width, filename and tabSize aside), the
\* lines of the file on disk as os.ReadFile found them or os.WriteFile last
\* wrote them (saved), and how the process stands: "running", "quit"
\* (tea.Quit was returned) or "panic" (a run-time abort: an index or slice
\* bound out of range).
VARIABLES content, cursorX, cursorY, offsetY, height, mode, statusMsg,
          searchTerm, replaceTerm, clipboard, modified, undoStack, redoStack,
          saved, running, nkeys

vars == <<content, cursorX, cursorY, offsetY, height, mode, statusMsg,
          searchTerm, replaceTerm, clipboard, modified, undoStack, redoStack,
          saved, running, nkeys>>

\* The model value the handlers receive, with the file they write to: the
\* variables as one record.
M == [content |-> content, cursorX |-> cursorX, cursorY |-> cursorY,
      offsetY |-> offsetY, height |-> height, mode |-> mode,
      statusMsg |-> statusMsg, searchTerm |-> searchTerm,
      replaceTerm |-> replaceTerm, clipboard |-> clipboard,
      modified |-> modified, undoStack |-> undoStack,
      redoStack |-> redoStack, saved |-> saved, running |-> running]

\* A status line: a fixed text, and for the texts that embed one, the term
\* (a Go string) or the count that follows it.
Status(text) == [text |-> text, term |-> <<>>, count |-> 0]

StatusTerm(text, term) == [text |-> text, term |-> term, count |-> 0]

StatusCount(text, n) == [text |-> text, term |-> <<>>, count |-> n]

\* A run-time panic: the process ends where it stands.
Panic(m) == [m EXCEPT !.running = "panic"]

\* tea.Sequence(tea.ClearScreen, tea.Quit)
Quit(m) == [m EXCEPT !.running = "quit"]

\* len(m.content[m.cursorY])
CurLen(m) == Len(m.content[m.cursorY + 1])

\* The action struct saveAction, undo and redo push: a deep copy.
Snapshot(m) == [content |-> m.content, cursorX |-> m.cursorX, cursorY |-> m.cursorY]

saveAction(m) ==
    [m EXCEPT !.undoStack = Append(@, Snapshot(m)), !.redoStack = <<>>]

undo(m) ==
    IF Len(m.undoStack) > 0
    THEN LET lastAction == m.undoStack[Len(m.undoStack)]
         IN  [m EXCEPT !.redoStack = Append(@, Snapshot(m)),
                       !.undoStack = Slice(@, 0, Len(@) - 1),
                       !.content = lastAction.content,
                       !.cursorX = lastAction.cursorX,
                       !.cursorY = lastAction.cursorY,
                       !.modified = TRUE,
                       !.statusMsg = Status("Undo performed")]
    ELSE [m EXCEPT !.statusMsg = Status("Nothing to undo")]

redo(m) ==
    IF Len(m.redoStack) > 0
    THEN LET lastAction == m.redoStack[Len(m.redoStack)]
         IN  [m EXCEPT !.undoStack = Append(@, Snapshot(m)),
                       !.redoStack = Slice(@, 0, Len(@) - 1),
                       !.content = lastAction.content,
                       !.cursorX = lastAction.cursorX,
                       !.cursorY = lastAction.cursorY,
                       !.modified = TRUE,
                       !.statusMsg = Status("Redo performed")]
    ELSE [m EXCEPT !.statusMsg = Status("Nothing to redo")]

adjustOffset(m) ==
    IF m.cursorY < m.offsetY
    THEN [m EXCEPT !.offsetY = m.cursorY]
    ELSE IF m.cursorY >= m.offsetY + m.height
         THEN [m EXCEPT !.offsetY = m.cursorY - m.height + 1]
         ELSE m

moveCursor(m, dx, dy) ==
    LET y  == Max(0, Min(m.cursorY + dy, Len(m.content) - 1))
        x  == Max(0, Min(m.cursorX + dx, Len(m.content[y + 1])))
    IN  adjustOffset([m EXCEPT !.cursorX = x, !.cursorY = y])

\* ---------------------------------------------------------------- search

\* The loop of findNext from row y (0-based), the slice starting at startX.
\* m.content[y][startX:] panics when startX exceeds the line's length.
RECURSIVE findNextFrom(_, _, _)
findNextFrom(m, y, startX) ==
    IF y >= Len(m.content)
    THEN [m EXCEPT !.statusMsg = StatusTerm("Pattern not found: ", m.searchTerm)]
    ELSE IF startX > Len(m.content[y + 1])
    THEN Panic(m)
    ELSE LET line == m.content[y + 1]
             x    == Index(Encode(Slice(line, startX, Len(line))), m.searchTerm)
         IN  IF x # -1
             THEN adjustOffset([m EXCEPT !.cursorY = y, !.cursorX = startX + x])
             ELSE findNextFrom(m, y + 1, 0)

findNext(m) == findNextFrom(m, m.cursorY, m.cursorX + 1)

\* The loop of findPrevious from row y down, startX as the loop holds it on
\* entry.  m.content[y][:startX+1] reaches past the line's length only on the
\* cursor's row with the cursor past the end of the line: the slice then takes
\* the stale runes of the backing array (spare) when its capacity allows, and
\* panics when it does not.
RECURSIVE findPreviousFrom(_, _, _, _)
findPreviousFrom(m, y, startX0, spare) ==
    IF y < 0
    THEN [m EXCEPT !.statusMsg = StatusTerm("Pattern not found: ", m.searchTerm)]
    ELSE LET line   == m.content[y + 1]
             startX == IF startX0 < 0 THEN Len(line) - 1 ELSE startX0
         IN  IF startX + 1 > Len(line) + Len(spare)
             THEN Panic(m)
             ELSE LET part == IF startX + 1 <= Len(line)
                              THEN Slice(line, 0, startX + 1)
                              ELSE line \o Slice(spare, 0, startX + 1 - Len(line))
                      x    == LastIndex(Encode(part), m.searchTerm)
                  IN  IF x # -1
                      THEN adjustOffset([m EXCEPT !.cursorY = y, !.cursorX = x])
                      ELSE findPreviousFrom(m, y - 1, -1, spare)

findPrevious(m, spare) == findPreviousFrom(m, m.cursorY, m.cursorX - 1, spare)

\* replaceAllFrom with strings.Replace(line, term, replacement, 1): the first
\* occurrence of each line only.
RECURSIVE replaceFirstFrom(_, _, _)
replaceFirstFrom(m, y, count) ==
    IF y >= Len(m.content)
    THEN [m EXCEPT !.statusMsg = StatusCount("Replaced %d occurrences", count)]
    ELSE LET line    == Encode(m.content[y + 1])
             newLine == IF Count(line, m.searchTerm) = 0 THEN line
                        ELSE ReplaceLoop(line, m.searchTerm, m.replaceTerm, 1, TRUE)
         IN  IF newLine # line
             THEN replaceFirstFrom([m EXCEPT !.content[y + 1] = Decode(newLine),
                                             !.modified = TRUE],
                                   y + 1, count + Count(line, m.searchTerm))
             ELSE replaceFirstFrom(m, y + 1, count)

\* The loop of replaceAll over the rows from y on, count as counted so far.
RECURSIVE replaceAllFrom(_, _, _)
replaceAllFrom(m, y, count) ==
    IF y >= Len(m.content)
    THEN [m EXCEPT !.statusMsg = StatusCount("Replaced %d occurrences", count)]
    ELSE LET line    == Encode(m.content[y + 1])
             newLine == ReplaceAll(line, m.searchTerm, m.replaceTerm)
         IN  IF newLine # line
             THEN replaceAllFrom([m EXCEPT !.content[y + 1] = Decode(newLine),
                                           !.modified = TRUE],
                                 y + 1, count + Count(line, m.searchTerm))
             ELSE replaceAllFrom(m, y + 1, count)

replaceAll(m) == replaceAllFrom(m, 0, 0)

\* The escape sequences highlightSearch wraps a match in, one byte each here.
HighlightOn == <<<<"\\033[43m", 1>>>>

HighlightOff == <<<<"\\033[0m", 1>>>>

\* strings.Split on a non-empty term and the loop and strings.Join that
\* follow it: each non-overlapping occurrence, left to right, is wrapped.
RECURSIVE highlightParts(_, _)
highlightParts(text, term) ==
    LET i == Index(text, term)
    IN  IF i = -1 THEN text
        ELSE Slice(text, 0, i) \o HighlightOn \o term \o HighlightOff
                 \o highlightParts(Slice(text, i + Len(term), Len(text)),
                                   term)

highlightSearch(text, term) ==
    IF term = <<>> THEN text ELSE highlightParts(text, term)

\* saveFile: ok is whether os.WriteFile succeeded; when it did, the file
\* holds the lines of the buffer.
saveFile(m, ok) ==
    IF ok
    THEN [m EXCEPT !.statusMsg = Status("File saved successfully"),
                   !.modified = FALSE,
                   !.saved = m.content]
    ELSE [m EXCEPT !.statusMsg = Status("Error saving file: ")]

\* -------------------------------------------------------------- messages

\* A tea.KeyMsg: msg.String() and msg.Runes.  A named key carries no runes.
NamedKey(name) == [str |-> name, runes |-> <<>>]

\* A key press that carries the one rune r.
RuneKey(r) == [str |-> r, runes |-> <<r>>]

\* What a handler takes from outside the model: whether os.WriteFile
\* succeeds, and the stale runes behind the cursor line's length.
Env(ok, spare) == [ok |-> ok, spare |-> spare]

NoEnv == Env(TRUE, <<>>)

\* s with the element at 0-based index i removed: append(s[:i], s[i+1:]...)
RemoveAt(s, i) == Slice(s, 0, i) \o Slice(s, i + 1, Len(s))

\* s with e inserted at 0-based index i.
InsertAt(s, i, e) == Slice(s, 0, i) \o <<e>> \o Slice(s, i, Len(s))

\* ---------------------------------------------------------------- handlers

\* normalQuit without the test of the modified flag.
normalQuitAlways(m) == Quit(m)

\* case "q"
normalQuit(m) ==
    IF m.modified
    THEN [m EXCEPT !.statusMsg = Status("Unsaved changes. Use :q! to force quit.")]
    ELSE Quit(m)

\* case "g"
normalTop(m) == [m EXCEPT !.cursorY = 0, !.offsetY = 0]

\* case "G"
normalBottom(m) == adjustOffset([m EXCEPT !.cursorY = Len(m.content) - 1])

\* normalDeleteChar without the assignment to m.modified.
normalDeleteCharUnflagged(m) ==
    IF m.cursorX < CurLen(m)
    THEN [m EXCEPT !.content[m.cursorY + 1] = RemoveAt(@, m.cursorX)]
    ELSE m

\* case "x"
normalDeleteChar(m) ==
    IF m.cursorX < CurLen(m)
    THEN [m EXCEPT !.content[m.cursorY + 1] = RemoveAt(@, m.cursorX),
                   !.modified = TRUE]
    ELSE m

\* normalDeleteLine with the guard off by one: the last row goes too.
normalDeleteLineAnyRow(m) ==
    IF m.cursorY <= Len(m.content) - 1
    THEN [m EXCEPT !.clipboard = Encode(m.content[m.cursorY + 1]),
                   !.content = RemoveAt(@, m.cursorY),
                   !.modified = TRUE,
                   !.cursorY = IF m.cursorY >= Len(m.content) - 1
                               THEN Len(m.content) - 2
                               ELSE m.cursorY]
    ELSE m

\* case "d"
normalDeleteLine(m) ==
    IF m.cursorY < Len(m.content) - 1
    THEN [m EXCEPT !.clipboard = Encode(m.content[m.cursorY + 1]),
                   !.content = RemoveAt(@, m.cursorY),
                   !.modified = TRUE,
                   !.cursorY = IF m.cursorY >= Len(m.content) - 1
                               THEN Len(m.content) - 2
                               ELSE m.cursorY]
    ELSE m

\* case "y"
normalYank(m) ==
    IF m.cursorY < Len(m.content)
    THEN [m EXCEPT !.clipboard = Encode(m.content[m.cursorY + 1]),
                   !.statusMsg = Status("Line yanked to clipboard")]
    ELSE m

\* case "p"
normalPaste(m) ==
    IF m.clipboard # <<>>
    THEN [saveAction(m) EXCEPT
              !.content = InsertAt(@, m.cursorY + 1, Decode(m.clipboard)),
              !.cursorY = m.cursorY + 1,
              !.modified = TRUE,
              !.statusMsg = Status("Line pasted from clipboard")]
    ELSE m

\* normalSearch with replaceMode for searchMode.
normalSearchIntoReplace(m) ==
    [m EXCEPT !.mode = "replace", !.statusMsg = Status("/"), !.searchTerm = <<>>]

\* case "/"
normalSearch(m) ==
    [m EXCEPT !.mode = "search", !.statusMsg = Status("/"), !.searchTerm = <<>>]

handleNormalMode(m, msg, env) ==
    CASE msg.str = "q" -> normalQuit(m)
      [] msg.str = "i" ->
           [m EXCEPT !.mode = "insert", !.statusMsg = Status("Insert mode")]
      [] msg.str \in {"h", "left"} -> moveCursor(m, -1, 0)
      [] msg.str \in {"l", "right"} -> moveCursor(m, 1, 0)
      [] msg.str \in {"k", "up"} -> moveCursor(m, 0, -1)
      [] msg.str \in {"j", "down"} -> moveCursor(m, 0, 1)
      [] msg.str = "g" -> normalTop(m)
      [] msg.str = "G" -> normalBottom(m)
      [] msg.str = "0" -> [m EXCEPT !.cursorX = 0]
      [] msg.str = "$" -> [m EXCEPT !.cursorX = CurLen(m)]
      [] msg.str = "x" -> normalDeleteChar(m)
      [] msg.str = "d" -> normalDeleteLine(m)
      [] msg.str = "u" -> undo(m)
      [] msg.str = "ctrl+r" -> redo(m)
      [] msg.str = "y" -> normalYank(m)
      [] msg.str = "p" -> normalPaste(m)
      [] msg.str = "/" -> normalSearch(m)
      [] msg.str = "n" -> findNext(m)
      [] msg.str = "N" -> findPrevious(m, env.spare)
      [] msg.str = ":" -> [m EXCEPT !.statusMsg = Status(":")]
      [] msg.str = "w" ->
           IF m.statusMsg = Status(":") THEN saveFile(m, env.ok) ELSE m
      [] msg.str = "q!" ->
           IF m.statusMsg = Status(":") THEN Quit(m) ELSE m
      [] msg.str = "ctrl+c" -> Quit(m)
      [] msg.str = "pageup" -> moveCursor(m, 0, -m.height)
      [] msg.str = "pagedown" -> moveCursor(m, 0, m.height)
      [] OTHER -> m

\* case "esc" of handleInsertMode
insertEsc(m) ==
    [m EXCEPT !.mode = "normal", !.statusMsg = Status("Normal mode"),
              !.cursorX = IF m.cursorX > 0 THEN m.cursorX - 1 ELSE m.cursorX]

\* case "enter": m.content[m.cursorY][m.cursorX:] panics with the cursor past
\* the end of the line.
insertEnter(m) ==
    IF m.cursorX > CurLen(m) THEN Panic(saveAction(m))
    ELSE LET line    == m.content[m.cursorY + 1]
             newLine == Slice(line, m.cursorX, Len(line))
             cut     == [m.content EXCEPT ![m.cursorY + 1] = Slice(line, 0, m.cursorX)]
         IN  [saveAction(m) EXCEPT
                  !.content = InsertAt(cut, m.cursorY + 1, newLine),
                  !.cursorY = m.cursorY + 1,
                  !.cursorX = 0,
                  !.modified = TRUE]

\* case "backspace"
insertBackspace(m) ==
    IF m.cursorX > 0
    THEN IF m.cursorX > CurLen(m) THEN Panic(m)
         ELSE [m EXCEPT !.content[m.cursorY + 1] = RemoveAt(@, m.cursorX - 1),
                        !.cursorX = m.cursorX - 1,
                        !.modified = TRUE]
    ELSE IF m.cursorY > 0
    THEN LET joined == m.content[m.cursorY] \o m.content[m.cursorY + 1]
         IN  [m EXCEPT !.cursorY = m.cursorY - 1,
                       !.cursorX = Len(m.content[m.cursorY]),
                       !.content = RemoveAt([@ EXCEPT ![m.cursorY] = joined],
                                            m.cursorY),
                       !.modified = TRUE]
    ELSE m

\* The tab case's loop: n spaces left to insert at the cursor.
RECURSIVE insertSpaces(_, _)
insertSpaces(m, n) ==
    IF n = 0 THEN m
    ELSE IF m.cursorX > CurLen(m) THEN Panic(m)
    ELSE insertSpaces([m EXCEPT !.content[m.cursorY + 1] = InsertAt(@, m.cursorX, " "),
                                !.cursorX = m.cursorX + 1],
                      n - 1)

\* case "tab"
insertTab(m) ==
    LET r == insertSpaces(m, tabSize)
    IN  IF r.running = "panic" THEN r ELSE [r EXCEPT !.modified = TRUE]

\* The default case, for a message of one rune.
insertRune(m, r) ==
    IF m.cursorX > CurLen(m) THEN Panic(saveAction(m))
    ELSE [saveAction(m) EXCEPT
              !.content[m.cursorY + 1] = InsertAt(@, m.cursorX, r),
              !.cursorX = m.cursorX + 1,
              !.modified = TRUE]

\* The switch of handleInsertMode, before the adjustOffset that ends it.
insertSwitch(m, msg) ==
    CASE msg.str = "esc" -> insertEsc(m)
      [] msg.str = "enter" -> insertEnter(m)
      [] msg.str = "backspace" -> insertBackspace(m)
      [] msg.str = "tab" -> insertTab(m)
      [] OTHER -> IF Len(msg.runes) = 1 THEN insertRune(m, msg.runes[1]) ELSE m

handleInsertMode(m, msg) ==
    LET r == insertSwitch(m, msg)
    IN  IF r.running = "panic" THEN r ELSE adjustOffset(r)

handleSearchMode(m, msg) ==
    CASE msg.str = "esc" ->
           [m EXCEPT !.mode = "normal", !.statusMsg = Status("Normal mode")]
      [] msg.str = "enter" ->
           LET r == findNext(m)
           IN  IF r.running = "panic" THEN r ELSE [r EXCEPT !.mode = "normal"]
      [] msg.str = "backspace" ->
           IF Len(m.searchTerm) > 0
           THEN LET t == Slice(m.searchTerm, 0, Len(m.searchTerm) - 1)
                IN  [m EXCEPT !.searchTerm = t, !.statusMsg = StatusTerm("/", t)]
           ELSE m
      [] OTHER ->
           IF Len(msg.runes) = 1
           THEN LET t == m.searchTerm \o EncodeRune(msg.runes[1])
                IN  [m EXCEPT !.searchTerm = t, !.statusMsg = StatusTerm("/", t)]
           ELSE m

handleReplaceMode(m, msg) ==
    CASE msg.str = "esc" ->
           [m EXCEPT !.mode = "normal", !.statusMsg = Status("Normal mode")]
      [] msg.str = "enter" -> [replaceAll(m) EXCEPT !.mode = "normal"]
      [] msg.str = "backspace" ->
           IF Len(m.replaceTerm) > 0
           THEN LET t == Slice(m.replaceTerm, 0, Len(m.replaceTerm) - 1)
                IN  [m EXCEPT !.replaceTerm = t,
                              !.statusMsg = StatusTerm("Replace with: ", t)]
           ELSE m
      [] OTHER ->
           IF Len(msg.runes) = 1
           THEN LET t == m.replaceTerm \o EncodeRune(msg.runes[1])
                IN  [m EXCEPT !.replaceTerm = t,
                              !.statusMsg = StatusTerm("Replace with: ", t)]
           ELSE m

\* Update on a tea.KeyMsg: the dispatch on m.mode.
Update(m, msg, env) ==
    CASE m.mode = "normal" -> handleNormalMode(m, msg, env)
      [] m.mode = "insert" -> handleInsertMode(m, msg)
      [] m.mode = "search" -> handleSearchMode(m, msg)
      [] m.mode = "replace" -> handleReplaceMode(m, msg)

\* Update on a tea.WindowSizeMsg of height h: two rows go to the status bar.
UpdateWindowSize(m, h) == [m EXCEPT !.height = h - 2]

\* ----------------------------------------------------------------- inputs

\* All sequences over S of length at most n.
RECURSIVE SeqsUpTo(_, _)
SeqsUpTo(S, n) ==
    IF n = 0 THEN {<<>>}
    ELSE LET shorter == SeqsUpTo(S, n - 1)
         IN  shorter \cup {Append(q, e) : q \in {t \in shorter : Len(t) = n - 1}, e \in S}

\* os.ReadFile and strings.Split: a file is one line or more; here each line
\* is empty or one rune.
InitFiles == SeqsUpTo({<<>>} \cup {<<r>> : r \in TypedRunes}, MaxInitLines) \ {<<>>}

\* The heights a WindowSizeMsg reports: the status bar and a row or more.
WinHeights == 3..MaxWinHeight

\* What may lie behind the cursor line's length in its backing array: stale
\* runes, as many as the capacity holds; nothing it reads when the cursor is
\* inside the line.
Spares(m) ==
    IF m.cursorX > CurLen(m)
    THEN SeqsUpTo(TypedRunes \cup {" "}, MaxSpare)
    ELSE {<<>>}

\* Whether os.WriteFile succeeds, where saveFile is reached at all.
WriteOutcomes(m) == IF m.statusMsg = Status(":") THEN BOOLEAN ELSE {TRUE}

\* The key messages the terminal sends: every key a handler has a case for,
\* the runes that can be typed, and the message of the two runes "q!".
Keys ==
    {RuneKey(k) : k \in {"q", "i", "h", "l", "k", "j", "g", "G", "0", "$", "x", "d",
                         "u", "y", "p", "/", "n", "N", ":", "w"} \cup TypedRunes}
        \cup {NamedKey(k) : k \in {"left", "right", "up", "down", "ctrl+r", "ctrl+c",
                                   "pageup", "pagedown", "esc", "enter",
                                   "backspace", "tab"}}
        \cup {[str |-> "q!", runes |-> <<"q", "!">>]}

\* What the handlers can find outside the model m.
Envs(m) == {Env(ok, spare) : ok \in BOOLEAN, spare \in Spares(m)}

\* The buffers and the terms the search and replace functions are tried on.
FnBuffers == SeqsUpTo(SeqsUpTo(TypedRunes, MaxFnLen), 2) \ {<<>>}

\* Go strings of at most MaxTermLen runes, and what backspace, which drops
\* one byte, leaves of them.
FnTerms ==
    UNION {{Slice(Encode(rs), 0, k) : k \in 0..Len(Encode(rs))} :
               rs \in SeqsUpTo(TypedRunes, MaxTermLen)}

\* ---------------------------------------------------------------- actions

\* The program takes the next message while it runs; r is the model Update
\* returns for it.
Commit(r) ==
    /\ running = "running"
    /\ nkeys < MaxKeys
    /\ nkeys' = nkeys + 1
    /\ content' = r.content
    /\ cursorX' = r.cursorX
    /\ cursorY' = r.cursorY
    /\ offsetY' = r.offsetY
    /\ height' = r.height
    /\ mode' = r.mode
    /\ statusMsg' = r.statusMsg
    /\ searchTerm' = r.searchTerm
    /\ replaceTerm' = r.replaceTerm
    /\ clipboard' = r.clipboard
    /\ modified' = r.modified
    /\ undoStack' = r.undoStack
    /\ redoStack' = r.redoStack
    /\ saved' = r.saved
    /\ running' = r.running

WindowSize ==
    /\ running = "running"
    /\ \E h \in WinHeights : Commit(UpdateWindowSize(M, h))

NormalQuit == mode = "normal" /\ Commit(Update(M, RuneKey("q"), NoEnv))

NormalInsert == mode = "normal" /\ Commit(Update(M, RuneKey("i"), NoEnv))

NormalLeft ==
    /\ mode = "normal"
    /\ \E k \in {RuneKey("h"), NamedKey("left")} : Commit(Update(M, k, NoEnv))

NormalRight ==
    /\ mode = "normal"
    /\ \E k \in {RuneKey("l"), NamedKey("right")} : Commit(Update(M, k, NoEnv))

NormalUp ==
    /\ mode = "normal"
    /\ \E k \in {RuneKey("k"), NamedKey("up")} : Commit(Update(M, k, NoEnv))

NormalDown ==
    /\ mode = "normal"
    /\ \E k \in {RuneKey("j"), NamedKey("down")} : Commit(Update(M, k, NoEnv))

NormalTop == mode = "normal" /\ Commit(Update(M, RuneKey("g"), NoEnv))

NormalBottom == mode = "normal" /\ Commit(Update(M, RuneKey("G"), NoEnv))

NormalLineStart == mode = "normal" /\ Commit(Update(M, RuneKey("0"), NoEnv))

NormalLineEnd == mode = "normal" /\ Commit(Update(M, RuneKey("$"), NoEnv))

NormalDeleteChar == mode = "normal" /\ Commit(Update(M, RuneKey("x"), NoEnv))

NormalDeleteLine == mode = "normal" /\ Commit(Update(M, RuneKey("d"), NoEnv))

NormalUndo == mode = "normal" /\ Commit(Update(M, RuneKey("u"), NoEnv))

NormalRedo == mode = "normal" /\ Commit(Update(M, NamedKey("ctrl+r"), NoEnv))

NormalYank == mode = "normal" /\ Commit(Update(M, RuneKey("y"), NoEnv))

NormalPaste == mode = "normal" /\ Commit(Update(M, RuneKey("p"), NoEnv))

NormalSearch == mode = "normal" /\ Commit(Update(M, RuneKey("/"), NoEnv))

NormalFindNext == mode = "normal" /\ Commit(Update(M, RuneKey("n"), NoEnv))

NormalFindPrevious ==
    /\ mode = "normal"
    /\ \E spare \in Spares(M) : Commit(Update(M, RuneKey("N"), Env(TRUE, spare)))

NormalColon == mode = "normal" /\ Commit(Update(M, RuneKey(":"), NoEnv))

NormalWrite ==
    /\ mode = "normal"
    /\ \E ok \in WriteOutcomes(M) : Commit(Update(M, RuneKey("w"), Env(ok, <<>>)))

\* "q!" is the String() of a message that carries the two runes at once.
NormalForceQuit ==
    /\ mode = "normal"
    /\ Commit(Update(M, [str |-> "q!", runes |-> <<"q", "!">>], NoEnv))

NormalCtrlC == mode = "normal" /\ Commit(Update(M, NamedKey("ctrl+c"), NoEnv))

NormalPageUp == mode = "normal" /\ Commit(Update(M, NamedKey("pageup"), NoEnv))

NormalPageDown == mode = "normal" /\ Commit(Update(M, NamedKey("pagedown"), NoEnv))

\* A key handleNormalMode has no case for.
NormalOther == mode = "normal" /\ Commit(Update(M, NamedKey("esc"), NoEnv))

InsertEsc == mode = "insert" /\ Commit(Update(M, NamedKey("esc"), NoEnv))

InsertEnter == mode = "insert" /\ Commit(Update(M, NamedKey("enter"), NoEnv))

InsertBackspace == mode = "insert" /\ Commit(Update(M, NamedKey("backspace"), NoEnv))

InsertTab == mode = "insert" /\ Commit(Update(M, NamedKey("tab"), NoEnv))

InsertRune ==
    /\ mode = "insert"
    /\ \E r \in TypedRunes : Commit(Update(M, RuneKey(r), NoEnv))

\* A key that carries no rune and has no case: the arrows, the page keys.
InsertOther == mode = "insert" /\ Commit(Update(M, NamedKey("left"), NoEnv))

SearchEsc == mode = "search" /\ Commit(Update(M, NamedKey("esc"), NoEnv))

SearchEnter == mode = "search" /\ Commit(Update(M, NamedKey("enter"), NoEnv))

SearchBackspace == mode = "search" /\ Commit(Update(M, NamedKey("backspace"), NoEnv))

SearchRune ==
    /\ mode = "search"
    /\ \E r \in TypedRunes : Commit(Update(M, RuneKey(r), NoEnv))

SearchOther == mode = "search" /\ Commit(Update(M, NamedKey("left"), NoEnv))

ReplaceEsc == mode = "replace" /\ Commit(Update(M, NamedKey("esc"), NoEnv))

ReplaceEnter == mode = "replace" /\ Commit(Update(M, NamedKey("enter"), NoEnv))

ReplaceBackspace == mode = "replace" /\ Commit(Update(M, NamedKey("backspace"), NoEnv))

ReplaceRune ==
    /\ mode = "replace"
    /\ Len(replaceTerm) < MaxTermLen
    /\ \E r \in TypedRunes : Commit(Update(M, RuneKey(r), NoEnv))

ReplaceOther == mode = "replace" /\ Commit(Update(M, NamedKey("left"), NoEnv))

\* ---------------------------------------------------------- specifications

\* initialModel: the file's lines, the zero value of every other field.
Init ==
    /\ content \in InitFiles
    /\ cursorX = 0
    /\ cursorY = 0
    /\ offsetY = 0
    /\ height = 0
    /\ mode = "normal"
    /\ statusMsg = Status("Normal mode")
    /\ searchTerm = <<>>
    /\ replaceTerm = <<>>
    /\ clipboard = <<>>
    /\ modified = FALSE
    /\ undoStack = <<>>
    /\ redoStack = <<>>
    /\ saved = content
    /\ running = "running"
    /\ nkeys = 0

\* The messages the program receives from the terminal.  No key of the
\* shipped bindings sets replaceMode, so its handler's actions are left to
\* SpecReplace.
Next ==
    \/ WindowSize
    \/ NormalQuit \/ NormalInsert
    \/ NormalLeft \/ NormalRight \/ NormalUp \/ NormalDown
    \/ NormalTop \/ NormalBottom \/ NormalLineStart \/ NormalLineEnd
    \/ NormalDeleteChar \/ NormalDeleteLine
    \/ NormalUndo \/ NormalRedo \/ NormalYank \/ NormalPaste
    \/ NormalSearch \/ NormalFindNext \/ NormalFindPrevious
    \/ NormalColon \/ NormalWrite \/ NormalForceQuit \/ NormalCtrlC
    \/ NormalPageUp \/ NormalPageDown \/ NormalOther
    \/ InsertEsc \/ InsertEnter \/ InsertBackspace \/ InsertTab
    \/ InsertRune \/ InsertOther
    \/ SearchEsc \/ SearchEnter \/ SearchBackspace \/ SearchRune \/ SearchOther

Spec == Init /\ [][Next]_vars

\* The search functions on their own: any buffer, any cursor inside it, any
\* persisted search term, a window of one row or more.
InitFind ==
    /\ content \in FnBuffers
    /\ cursorY \in 0..(Len(content) - 1)
    /\ cursorX \in 0..Len(content[cursorY + 1])
    /\ offsetY = 0
    /\ height = 1
    /\ mode = "normal"
    /\ statusMsg = Status("Normal mode")
    /\ searchTerm \in FnTerms
    /\ replaceTerm = <<>>
    /\ clipboard = <<>>
    /\ modified = FALSE
    /\ undoStack = <<>>
    /\ redoStack = <<>>
    /\ saved = content
    /\ running = "running"
    /\ nkeys = 0

NextFind == NormalFindNext \/ NormalFindPrevious

SpecFind == InitFind /\ [][NextFind]_vars

\* Replace mode on its own, entered with a persisted search term already
\* set and the replacement partly typed.
InitReplace ==
    /\ content \in FnBuffers
    /\ cursorX = 0
    /\ cursorY = 0
    /\ offsetY = 0
    /\ height = 1
    /\ mode = "replace"
    /\ statusMsg = Status("Normal mode")
    /\ searchTerm \in FnTerms
    /\ replaceTerm \in FnTerms
    /\ clipboard = <<>>
    /\ modified = FALSE
    /\ undoStack = <<>>
    /\ redoStack = <<>>
    /\ saved = content
    /\ running = "running"
    /\ nkeys = 0

NextReplace ==
    ReplaceEsc \/ ReplaceEnter \/ ReplaceBackspace \/ ReplaceRune \/ ReplaceOther

SpecReplace == InitReplace /\ [][NextReplace]_vars

\* ------------------------------------------------------------------ claims

\* Whether the cursor of m is inside its buffer.
CursorInside(m) ==
    /\ 0 <= m.cursorY
    /\ m.cursorY < Len(m.content)
    /\ 0 <= m.cursorX
    /\ m.cursorX <= Len(m.content[m.cursorY + 1])

\* C1: in every state reachable by key events the cursor is inside the
\* buffer: 0 <= cursorY < number of lines and 0 <= cursorX <= length of the
\* cursor's line.
C1_CursorInsideBuffer == CursorInside(M)

\* Whether a and b hold the same buffer and the same cursor.
SameText(a, b) ==
    /\ a.content = b.content
    /\ a.cursorX = b.cursorX
    /\ a.cursorY = b.cursorY

\* The messages of the edit actions in the mode of m: x, delete-line and
\* paste in Normal mode; a character, newline, backspace and tab in Insert
\* mode.
EditMsgs(m) ==
    CASE m.mode = "normal" -> {RuneKey("x"), RuneKey("d"), RuneKey("p")}
      [] m.mode = "insert" ->
           {NamedKey("enter"), NamedKey("backspace"), NamedKey("tab")}
               \cup {RuneKey(r) : r \in TypedRunes}
      [] OTHER -> {}

\* The models one edit action leads to from m: the handler ran to its end
\* and changed the buffer.
Edits(m) ==
    {s \in {Update(m, msg, NoEnv) : msg \in EditMsgs(m)} :
        s.running = "running" /\ s.content # m.content}

\* Undo right after one edit restores the buffer and cursor from before it,
\* and redo right after that undo those from after it.
RoundTripOne(m) ==
    \A s1 \in Edits(m) :
        /\ SameText(undo(s1), m)
        /\ SameText(redo(undo(s1)), s1)

\* The same over two edits, two undos and two redos.
RoundTripTwo(m) ==
    \A s1 \in Edits(m) : \A s2 \in Edits(s1) :
        LET u1 == undo(s2)
            u2 == undo(u1)
            r1 == redo(u2)
            r2 == redo(r1)
        IN  /\ SameText(u1, s1)
            /\ SameText(u2, m)
            /\ SameText(r1, s1)
            /\ SameText(r2, s2)

\* C2: undo right after any single edit action restores exactly the buffer
\* and cursor from before the edit, redo right after that undo restores
\* those from after it, and the same holds for k edits, k undos and k redos
\* (k = 2 here).
C2_UndoRedoRoundTrip ==
    running = "running" => RoundTripOne(M) /\ RoundTripTwo(M)

\* C3: any edit action clears the redo stack: after edit; undo; edit, redo
\* reports "Nothing to redo" and leaves buffer and cursor as the second edit
\* left them.
C3_EditClearsRedo ==
    running = "running" =>
        \A s1 \in Edits(M) : \A s3 \in Edits(undo(s1)) :
            /\ redo(s3).statusMsg = Status("Nothing to redo")
            /\ SameText(redo(s3), s3)

\* C4: no sequence of key events makes the editor index a line or a rune
\* outside the buffer: the process never ends in a run-time abort.
C4_NoRuntimeAbort == running # "panic"

\* C5: the buffer holds at least one line in every reachable state, and
\* delete-line on a buffer of exactly one line changes nothing: the buffer
\* still holds that one line.
C5_AtLeastOneLine ==
    /\ Len(content) >= 1
    /\ (running = "running" /\ mode = "normal" /\ Len(content) = 1) =>
           LET r == Update(M, RuneKey("d"), NoEnv)
           IN  Len(r.content) = 1 /\ r = M

\* C5's case: the first key was delete-line on a file of two lines, which
\* left one line (the only way the clipboard is filled and the buffer
\* shorter after one key); delete-line is now the no-op.
C5_Witness ==
    /\ nkeys = 1
    /\ mode = "normal"
    /\ clipboard # <<>>
    /\ modified
    /\ Len(content) = 1

\* Whether term occurs in line starting at rune column col.
OccursAtCol(line, col, term) ==
    /\ col <= Len(line)
    /\ OccursAt(Encode(Slice(line, col, Len(line))), term, 0)

\* The positions <<row, column>> of the occurrences of the search term that
\* start strictly after the cursor of m, in row-then-column order.
OccurrencesAfter(m) ==
    UNION {{<<y, x>> : x \in {c \in 0..Len(m.content[y + 1]) :
                                 /\ y > m.cursorY \/ c >= m.cursorX + 1
                                 /\ OccursAtCol(m.content[y + 1], c, m.searchTerm)}} :
               y \in m.cursorY..(Len(m.content) - 1)}

\* The first of a non-empty set of positions, rows first.
FirstPosition(S) ==
    CHOOSE p \in S : \A q \in S : p[1] < q[1] \/ (p[1] = q[1] /\ p[2] <= q[2])

\* What C6 says of findNext on m.
FindNextAsClaimed(m) ==
    LET r == findNext(m)
    IN  /\ r.running = "running"
        /\ IF OccurrencesAfter(m) = {}
           THEN /\ SameText(r, m)
                /\ r.statusMsg = StatusTerm("Pattern not found: ", m.searchTerm)
           ELSE <<r.cursorY, r.cursorX>> = FirstPosition(OccurrencesAfter(m))

\* C6: findNext with a non-empty term moves the cursor to the first
\* occurrence that starts strictly after it, in row-then-column order, and
\* when there is none it leaves cursor and buffer alone and reports that the
\* pattern was not found (no wraparound).
C6_FindNextFirstAfterCursor ==
    (running = "running" /\ searchTerm # <<>>) => FindNextAsClaimed(M)

\* Whether the Go string t is whole characters: valid UTF-8.
ValidText(t) == Encode(Decode(t)) = t

\* Whether the search term of m occurs in some line of its buffer.
TermOccurs(m) ==
    \E y \in 1..Len(m.content) : Index(Encode(m.content[y]), m.searchTerm) # -1

\* Whether replaceAll applied to m, which a first application left, leaves
\* the buffer as it is and reports 0.
SecondPassIdle(m) ==
    /\ replaceAll(m).content = m.content
    /\ replaceAll(m).statusMsg = StatusCount("Replaced %d occurrences", 0)

\* Term and replacement are non-empty whole characters with no character in
\* common.
DisjointTerms(m) ==
    /\ m.searchTerm # <<>>
    /\ m.replaceTerm # <<>>
    /\ ValidText(m.searchTerm)
    /\ ValidText(m.replaceTerm)
    /\ \A i \in 1..Len(m.searchTerm) : \A j \in 1..Len(m.replaceTerm) :
           m.searchTerm[i][1] # m.replaceTerm[j][1]

\* C7 as stated: replaceAll is idempotent whenever the replacement does not
\* contain the (non-empty) search term: a second application leaves the
\* buffer as the first left it and reports a count of 0.
C7_IdempotentAsStated ==
    (searchTerm # <<>> /\ Index(replaceTerm, searchTerm) = -1) =>
        SecondPassIdle(replaceAll(M))

\* C7 as amended: a second replaceAll leaves the buffer as the first left it
\* and reports 0 whenever the first left no occurrence of the (non-empty)
\* search term in the buffer, which is so whenever term and replacement are
\* non-empty whole characters with no character in common.
C7_IdempotentWhenTermGone ==
    searchTerm # <<>> =>
        /\ ~TermOccurs(replaceAll(M)) => SecondPassIdle(replaceAll(M))
        /\ DisjointTerms(M) => ~TermOccurs(replaceAll(M))

\* C7's case: enter in Replace mode has replaced two occurrences or more by
\* a replacement that shares no character with the term; the state is what
\* the first application left.
C7_Witness ==
    /\ mode = "normal"
    /\ statusMsg.text = "Replaced %d occurrences"
    /\ statusMsg.count >= 2
    /\ modified
    /\ DisjointTerms(M)

\* The sum of strings.Count over the lines of a buffer from row y (1-based).
RECURSIVE TotalCount(_, _, _)
TotalCount(buf, term, y) ==
    IF y > Len(buf) THEN 0
    ELSE Count(Encode(buf[y]), term) + TotalCount(buf, term, y + 1)

\* C8: replaceAll replaces in every line all non-overlapping occurrences of
\* the term, reports the total number of non-overlapping occurrences over
\* the buffer (for every non-empty term and every replacement, one equal to
\* the term included), and sets the modified flag only if a line changed.
C8_ReplaceAllCount ==
    (searchTerm # <<>> /\ mode = "replace") =>
        LET r == replaceAll(M)
        IN  /\ \A y \in 1..Len(content) :
                   r.content[y] = Decode(ReplaceAll(Encode(content[y]), searchTerm,
                                                    replaceTerm))
            /\ r.statusMsg =
                   StatusCount("Replaced %d occurrences", TotalCount(content, searchTerm, 1))
            /\ (r.modified # modified) => r.content # content

\* Whether the cursor row of m is inside its viewport.
CursorVisible(m) ==
    /\ m.offsetY >= 0
    /\ m.offsetY <= m.cursorY
    /\ m.cursorY <= m.offsetY + m.height - 1

\* The keys C9 lists, in the mode of m: moves, page keys, g/G, paste,
\* delete-line, undo, redo and the search jumps in Normal mode, enter in
\* Search mode, the edits of Insert mode.
ViewMsgs(m) ==
    CASE m.mode = "normal" ->
           {RuneKey(k) : k \in {"h", "j", "k", "l", "g", "G", "p", "d", "u", "n", "N"}}
               \cup {NamedKey(k) : k \in {"pageup", "pagedown", "ctrl+r"}}
      [] m.mode = "insert" ->
           {NamedKey("enter"), NamedKey("backspace"), NamedKey("tab")}
               \cup {RuneKey(r) : r \in TypedRunes}
      [] m.mode = "search" -> {NamedKey("enter")}
      [] OTHER -> {}

\* C9: with a viewport of one row or more, after every key event that moves
\* the cursor or changes the line count the cursor row is visible:
\* 0 <= offsetY <= cursorY <= offsetY + height - 1.  The cursor row is
\* visible before the key, too.
C9_CursorRowVisible ==
    (running = "running" /\ height >= 1 /\ CursorVisible(M)) =>
        \A msg \in ViewMsgs(M) :
            LET r == Update(M, msg, NoEnv)
            IN  (/\ r.running = "running"
                 /\ \/ r.cursorY # cursorY
                    \/ r.cursorX # cursorX
                    \/ Len(r.content) # Len(content))
                    => CursorVisible(r)

\* C10: in Normal mode the quit key ends the editor if and only if the
\* modified flag is unset; with the flag set the editor keeps running,
\* nothing but the status changes, and the status is the unsaved-changes
\* warning.
C10_QuitOnlyUnmodified ==
    (running = "running" /\ mode = "normal") =>
        LET r == Update(M, RuneKey("q"), NoEnv)
        IN  /\ r.running = "quit" <=> ~modified
            /\ modified =>
                   r = [M EXCEPT !.statusMsg =
                                     Status("Unsaved changes. Use :q! to force quit.")]

\* C10's case: the quit key was refused on a modified buffer.
C10_Witness ==
    /\ running = "running"
    /\ mode = "normal"
    /\ modified
    /\ statusMsg = Status("Unsaved changes. Use :q! to force quit.")

\* The model after the runes rs were typed into m, one key message each.
RECURSIVE TypeRunes(_, _)
TypeRunes(m, rs) ==
    IF rs = <<>> THEN m
    ELSE TypeRunes(Update(m, RuneKey(Head(rs)), NoEnv), Tail(rs))

\* The models left by entering Search mode again from m, typing one or two
\* characters and pressing escape.
SearchAbandoned(m) ==
    {Update(TypeRunes(Update(m, RuneKey("/"), NoEnv), rs), NamedKey("esc"), NoEnv) :
         rs \in SeqsUpTo(TypedRunes, 2) \ {<<>>}}

\* C11: escape in Search mode abandons only the in-progress term: with a
\* non-empty search term confirmed by enter (Normal mode, the status still
\* the "/" and the term that enter left), entering Search mode again, typing characters
\* and pressing escape leaves the persisted search term the confirmed one.
C11_EscKeepsConfirmedTerm ==
    (/\ running = "running"
     /\ mode = "normal"
     /\ searchTerm # <<>>
     /\ statusMsg = StatusTerm("/", searchTerm)) =>
        \A r \in SearchAbandoned(M) : r.mode = "normal" /\ r.searchTerm = searchTerm

\* C12: paste in Normal mode, for every register content, the empty string
\* included, takes one checkpoint, inserts a new line equal to the register
\* right after the cursor row, moves the cursor to that row, and leaves
\* every other line and the register unchanged.
C12_PasteEveryRegister ==
    (running = "running" /\ mode = "normal") =>
        LET r == Update(M, RuneKey("p"), NoEnv)
        IN  /\ r.undoStack = Append(undoStack, Snapshot(M))
            /\ r.content = InsertAt(content, cursorY + 1, Decode(clipboard))
            /\ Encode(r.content[cursorY + 2]) = clipboard
            /\ r.cursorY = cursorY + 1
            /\ r.clipboard = clipboard

\* C13: delete-line in Normal mode on a buffer of two lines or more, for
\* every cursor row, the final row included, copies the cursor's line into
\* the register, removes it from the buffer and clamps the cursor row; it is
\* a no-op only when the buffer has exactly one line.
C13_DeleteLineEveryRow ==
    (running = "running" /\ mode = "normal") =>
        LET r == Update(M, RuneKey("d"), NoEnv)
        IN  IF Len(content) >= 2
            THEN /\ r.clipboard = Encode(content[cursorY + 1])
                 /\ r.content = RemoveAt(content, cursorY)
                 /\ r.cursorY = Min(cursorY, Len(content) - 2)
            ELSE r = M

\* The positions <<row, column>> of the occurrences of the search term that
\* lie before the cursor of m: on the cursor's row those contained in the
\* columns before the cursor, on an earlier row all of them.
OccurrencesBefore(m) ==
    UNION {{<<y, x>> : x \in {c \in 0..Len(m.content[y + 1]) :
                                 IF y = m.cursorY
                                 THEN /\ c <= m.cursorX
                                      /\ OccursAt(Encode(Slice(m.content[y + 1], c,
                                                               m.cursorX)),
                                                  m.searchTerm, 0)
                                 ELSE OccursAtCol(m.content[y + 1], c, m.searchTerm)}} :
               y \in 0..m.cursorY}

\* The last of a non-empty set of positions, rows first.
LastPosition(S) ==
    CHOOSE p \in S : \A q \in S : p[1] > q[1] \/ (p[1] = q[1] /\ p[2] >= q[2])

\* What C14 says of findPrevious on m.
FindPreviousAsClaimed(m) ==
    LET r == findPrevious(m, <<>>)
    IN  /\ r.running = "running"
        /\ IF OccurrencesBefore(m) = {}
           THEN /\ SameText(r, m)
                /\ r.statusMsg = StatusTerm("Pattern not found: ", m.searchTerm)
           ELSE <<r.cursorY, r.cursorX>> = LastPosition(OccurrencesBefore(m))

\* C14: findPrevious with a non-empty term from cursor (r,c) moves the
\* cursor only to an occurrence before it: the last one on row r contained
\* in columns 0..c-1, else the last one on the nearest earlier row that has
\* one; when there is none the cursor is unchanged and the pattern is
\* reported not found (no wraparound).
C14_FindPreviousLastBeforeCursor ==
    (running = "running" /\ searchTerm # <<>> /\ CursorInside(M)) =>
        FindPreviousAsClaimed(M)

\* C15: an empty search term matches nothing and changes nothing: findNext
\* and findPrevious leave the cursor where it was, replaceAll leaves every
\* line and the modified flag unchanged for every replacement, and
\* highlighting returns the text unchanged.
C15_EmptyTermNoOp ==
    (running = "running" /\ searchTerm = <<>> /\ CursorInside(M)) =>
        /\ findNext(M).running = "running"
        /\ SameText(findNext(M), M)
        /\ SameText(findPrevious(M, <<>>), M)
        /\ \A new \in FnTerms :
               LET r == replaceAll([M EXCEPT !.replaceTerm = new])
               IN  r.content = content /\ r.modified = modified
        /\ \A y \in 1..Len(content) :
               highlightSearch(Encode(content[y]), searchTerm) = Encode(content[y])

\* C16: the process terminates only from Normal mode, and with the modified
\* flag set it terminates only through the force-quit key received while
\* the command prefix is active: no other key, in any mode, ends the process
\* with unsaved changes.
C16_QuitOnlyFromNormal ==
    running = "running" =>
        \A msg \in Keys : \A env \in Envs(M) :
            Update(M, msg, env).running = "quit" =>
                /\ mode = "normal"
                /\ modified => (msg.str = "q!" /\ statusMsg = Status(":"))

\* The least multiple of tabSize greater than the column c.
NextTabStop(c) == c + tabSize - (c % tabSize)

\* C17: tab in Insert mode at cursor column c takes exactly one checkpoint
\* and inserts exactly tabSize - (c mod tabSize) spaces at the cursor, so
\* that the new cursor column is the least multiple of tabSize greater
\* than c.
C17_TabToNextStop ==
    (running = "running" /\ mode = "insert" /\ CursorInside(M)) =>
        LET r    == Update(M, NamedKey("tab"), NoEnv)
            line == content[cursorY + 1]
            n    == tabSize - (cursorX % tabSize)
        IN  /\ r.running = "running"
            /\ r.undoStack = Append(undoStack, Snapshot(M))
            /\ r.cursorX = NextTabStop(cursorX)
            /\ r.cursorY = cursorY
            /\ r.content = [content EXCEPT ![cursorY + 1] =
                                Slice(line, 0, cursorX) \o [k \in 1..n |-> " "]
                                    \o Slice(line, cursorX, Len(line))]

\* C18: a key event that leaves the buffer unchanged creates no checkpoint:
\* backspace in Insert mode at row 0, column 0 leaves buffer, cursor, undo
\* stack and redo stack unchanged, and the undo stack grows only in a step
\* that also changes the buffer.
C18_NoCheckpointWithoutChange ==
    running = "running" =>
        /\ (mode = "insert" /\ cursorX = 0 /\ cursorY = 0) =>
               LET r == Update(M, NamedKey("backspace"), NoEnv)
               IN  /\ SameText(r, M)
                   /\ r.undoStack = undoStack
                   /\ r.redoStack = redoStack
        /\ \A msg \in Keys : \A env \in Envs(M) :
               LET r == Update(M, msg, env)
               IN  (r.running = "running" /\ Len(r.undoStack) > Len(undoStack))
                       => r.content # content

\* The mode changes C19 lists: from a mode, on a key, to a mode.
ListedModeChange(from, key, to) ==
    \/ from = "normal" /\ key = "i" /\ to = "insert"
    \/ from = "normal" /\ key = "/" /\ to = "search"
    \/ from = "insert" /\ key = "esc" /\ to = "normal"
    \/ from = "search" /\ key \in {"esc", "enter"} /\ to = "normal"

\* C19: starting from the initial Normal mode, Replace mode is never
\* reached by any sequence of key events, and the only mode changes are
\* Normal to Insert on i, Normal to Search on /, Insert to Normal on escape,
\* and Search to Normal on escape or enter.
C19_ModeTransitions ==
    /\ mode # "replace"
    /\ running = "running" =>
           /\ \A h \in WinHeights : UpdateWindowSize(M, h).mode = mode
           /\ \A msg \in Keys : \A env \in Envs(M) :
                  LET r == Update(M, msg, env)
                  IN  /\ r.mode # "replace"
                      /\ r.mode # mode => ListedModeChange(mode, msg.str, r.mode)

\* C19's case: a checkpoint with an empty register was taken in Insert
\* mode, which was left for Normal mode, and Search mode was entered from
\* there.
C19_Witness ==
    /\ running = "running"
    /\ mode = "search"
    /\ undoStack # <<>>
    /\ clipboard = <<>>

\* C20: the modified flag is sound: whenever the buffer differs from the
\* lines last saved (or loaded, when nothing was saved yet) the flag is
\* set; the flag goes from set to unset only in a successful save, which
\* leaves the saved lines equal to the buffer; so the quit key never ends
\* the editor while the buffer differs from the saved lines.
C20_ModifiedFlagSound ==
    /\ content # saved => modified
    /\ running = "running" =>
           \A msg \in Keys : \A env \in Envs(M) :
               LET r == Update(M, msg, env)
               IN  /\ (modified /\ ~r.modified) =>
                          /\ mode = "normal" /\ msg.str = "w" /\ env.ok
                          /\ r.statusMsg = Status("File saved successfully")
                          /\ r.saved = r.content
                   /\ (msg.str = "q" /\ content # saved) => r.running # "quit"

\* C20's case: an edit that took a checkpoint set the flag, and a
\* successful save has just cleared it.
C20_Witness ==
    /\ running = "running"
    /\ ~modified
    /\ statusMsg = Status("File saved successfully")
    /\ undoStack # <<>>
    /\ saved = content

====
